---- MODULE Spec2Model ----
(***************************************************************************)
(* Order placement and fulfilment pipeline of the building-materials       *)
(* marketplace (core/views.py, core/forms.py, core/models.py).             *)
(*                                                                         *)
(* The database is the committed state.  Every HTTP request is a process   *)
(* (a request slot) that reads committed rows into its own memory and      *)
(* writes them back later; the statements of a transaction.atomic() block  *)
(* become visible together, at its commit.  select_for_update() takes the  *)
(* row lock of a Material until the transaction ends.                      *)
(***************************************************************************)
EXTENDS Integers, Sequences, FiniteSets, TLC

(* ------------------------------ bounds -------------------------------- *)
MaxStock == 3
MaxQty == 2
MaxPrice == 1
MaxOrders == 2
MaxClock == 2
MaxNotes == 1
MaxDeliveries == 3
NumRace == 3

(* ----------------------------- universe ------------------------------- *)
Materials == {"m1"}
Engineers == {"e1", "e2"}
Buyers == {"e1"}
Agents == {"a1", "a2"}
Slots == {1, 2}
RaceSlots == 1..NumRace
AllSlots == Slots \cup RaceSlots
MaxId == IF MaxDeliveries + 1 > NumRace THEN MaxDeliveries + 1 ELSE NumRace
OrderIds == 1..(IF MaxOrders > MaxId THEN MaxOrders ELSE MaxId)

MaterialRows == [stock_level : 0..MaxStock, unit_price : 0..MaxPrice, is_active : BOOLEAN]

Null == 0
NoAgent == "none"
NoReq == 0
NoOrder == [status |-> "absent"]
NoMaterial == [stock_level |-> 0, unit_price |-> 0, is_active |-> FALSE, deleted |-> TRUE]
NoDelivery == [order |-> 0]
Idle == [pc |-> "idle"]

STATUS_CHOICES == {"pending", "confirmed", "dispatched", "delivered", "cancelled"}
cancellable == {"pending", "confirmed"}
allowed == {"dispatched", "delivered"}

VARIABLES
    material,      \* Material rows: stock_level, unit_price, is_active
    orders,        \* Order rows by primary key
    nextOrderId,   \* the Order primary-key sequence
    deliveries,    \* Delivery rows, in primary-key order
    agents,        \* active Profiles with role "delivery"
    lock,          \* holder of each Material row lock
    req,           \* the request slots: position and in-memory objects
    sent,          \* transactional emails handed to the mail backend
    failed_emails, \* the records of failed_emails.log
    now,           \* the clock timezone.now() reads
    scenario       \* the inputs a scenario specification fixed at the start

vars == <<material, orders, nextOrderId, deliveries, agents, lock, req, sent, failed_emails, now,
          scenario>>

(* ------------------------------ helpers ------------------------------- *)
Min(a, b) == IF a < b THEN a ELSE b

Free(r) == req[r].pc = "idle"

\* the last Order primary key the model hands out
IdCap == IF scenario.kind = "race" THEN NumRace ELSE MaxOrders

Done(k, o) == [pc |-> "done", kind |-> k, outcome |-> o]

Perms(S) == {f \in [1..Cardinality(S) -> S] : \A i, j \in 1..Cardinality(S) : i # j => f[i] # f[j]}

(* Order.save (models.py): the total is filled in when it is falsy; only  *)
(* the columns of update_fields are written.                                *)
OrderSave_AllColumns(row, mem, unit_price, update_fields) ==
    [mem EXCEPT !.total_price = IF mem.total_price = 0 THEN unit_price * mem.quantity ELSE mem.total_price]

OrderSave(row, mem, unit_price, update_fields) ==
    LET filled == [mem EXCEPT !.total_price =
                       IF mem.total_price = 0 THEN unit_price * mem.quantity ELSE mem.total_price]
    IN  [f \in DOMAIN filled |-> IF f \in update_fields THEN filled[f] ELSE row[f]]

(* OrderForm.clean_quantity (forms.py) against the material row it read.   *)
clean_quantity_NoStock(quantity, stock_level) ==
    IF quantity <= 0 THEN "validation" ELSE "valid"

clean_quantity(quantity, stock_level) ==
    IF quantity <= 0 THEN "validation"
    ELSE IF quantity > stock_level THEN "insufficient_stock"
    ELSE "valid"

(* The stock test place_order makes on the row it holds locked.            *)
LockedCheck_None(requested_qty, stock_level) == "ok"

LockedCheck(requested_qty, stock_level) ==
    IF requested_qty <= 0 THEN "validation"
    ELSE IF requested_qty > stock_level THEN "insufficient_stock"
    ELSE "ok"

(* assign_delivery_agent (views.py): least active load, first minimum in   *)
(* the order the agent query returns its rows.                              *)
ActiveCount(a, dels) ==
    Cardinality({i \in DOMAIN dels : dels[i].delivery_agent = a /\ dels[i].delivered_at = Null})

SelectLoop_First(agents_qs, dels, i, selected, min_count) == agents_qs[1]

RECURSIVE SelectLoop(_, _, _, _, _)
SelectLoop(agents_qs, dels, i, selected, min_count) ==
    IF i > Len(agents_qs) THEN selected
    ELSE LET cnt == ActiveCount(agents_qs[i], dels)
         IN  IF selected = NoAgent \/ cnt < min_count
             THEN SelectLoop(agents_qs, dels, i + 1, agents_qs[i], cnt)
             ELSE SelectLoop(agents_qs, dels, i + 1, selected, min_count)

ExistingDelivery_None(oid, dels) == {}

ExistingDelivery(oid, dels) == {i \in DOMAIN dels : dels[i].order = oid}

\* Profile.objects.filter(role="delivery", user__is_active=True)
ActiveAgents(profiles) ==
    {p \in DOMAIN profiles : profiles[p].role = "delivery" /\ profiles[p].is_active}

assign_delivery_agent_Unassigned(oid, agents_qs, dels, order) ==
    [returned |-> [order |-> oid, delivery_agent |-> NoAgent, delivery_location |-> "",
                   dispatched_at |-> Null, delivered_at |-> Null, notes |-> <<>>],
     created |-> TRUE]

\* An attribute the object does not have
NoAttr == "no attribute"

\* What assign_delivery_agent sees of an order: the Order model has neither
\* a delivery_location nor a shipping_address field, and its supplier has a
\* Profile with an address that may be blank
OrderAttrs(address) ==
    [delivery_location |-> NoAttr, shipping_address |-> NoAttr, supplier_address |-> address]

\* the address of the supplier's Profile
SupplierAddress == IF scenario.kind = "assign" THEN scenario.address ELSE "addr"

delivery_location_Empty(order) == ""

\* the delivery_location assign_delivery_agent gives the Delivery
delivery_location(order) ==
    IF order.delivery_location \notin {NoAttr, ""} THEN order.delivery_location
    ELSE IF order.shipping_address \notin {NoAttr, ""} THEN order.shipping_address
    ELSE IF order.supplier_address \notin {NoAttr, ""} THEN order.supplier_address
    ELSE ""

\* what assign_delivery_agent returns for order oid (the existing Delivery,
\* None, or the Delivery it creates), and whether it created that row
assign_delivery_agent(oid, agents_qs, dels, order) ==
    IF ExistingDelivery(oid, dels) # {}
    THEN [returned |-> dels[CHOOSE i \in ExistingDelivery(oid, dels) :
                                \A j \in ExistingDelivery(oid, dels) : i <= j],
          created |-> FALSE]
    ELSE IF Len(agents_qs) = 0 THEN [returned |-> NoDelivery, created |-> FALSE]
    ELSE [returned |-> [order |-> oid,
                        delivery_agent |-> SelectLoop(agents_qs, dels, 1, NoAgent, 0),
                        delivery_location |-> delivery_location(order),
                        dispatched_at |-> Null, delivered_at |-> Null, notes |-> <<>>],
          created |-> TRUE]

(* ------------------------------ email_utils --------------------------- *)
\* what msg.send() does: the backend takes the message, reports that it
\* sent none, or raises
BackendOutcomes == {"sent", "zero", "SMTPDataError", "SMTPException", "Exception"}

\* _send_mail_html_subject: whether it returns True, and whether it leaves
\* a record in failed_emails.log (persist_ok: the log file can be written)
send_mail_html_subject(backend, persist_ok) ==
    IF backend = "sent" THEN [ok |-> TRUE, persisted |-> FALSE]
    ELSE IF backend = "zero" THEN [ok |-> FALSE, persisted |-> FALSE]
    ELSE [ok |-> FALSE, persisted |-> persist_ok]

\* send_order_placed / send_order_dispatched / send_order_delivered, one
\* message to the engineer of the order
SendMail(mail, backend, persist_ok) ==
    LET res == send_mail_html_subject(backend, persist_ok)
    IN  /\ sent' = IF res.ok THEN sent \cup {mail} ELSE sent
        /\ failed_emails' = IF res.persisted THEN failed_emails \cup {mail} ELSE failed_emails

(* ----------------------------- place_order ---------------------------- *)
\* get_object_or_404(Material, pk=material_id, is_active=True)
PlaceLookup(r, e, m) ==
    /\ Free(r)
    /\ req' = [req EXCEPT ![r] =
                  IF material[m].is_active
                  THEN [pc |-> "place_form", engineer |-> e, material |-> m]
                  ELSE Done("place", "not_found")]
    /\ UNCHANGED <<material, orders, nextOrderId, deliveries, agents, lock, sent,
                   failed_emails, now, scenario>>

\* form.is_valid(): clean_quantity against the material row the form reads
PlaceValidate(r, q) ==
    /\ req[r].pc = "place_form"
    /\ LET v == clean_quantity(q, material[req[r].material].stock_level)
       IN  req' = [req EXCEPT ![r] =
                  IF v = "valid"
                  THEN [pc |-> "place_lock", engineer |-> req[r].engineer,
                        material |-> req[r].material, quantity |-> q]
                  ELSE Done("place", v)]
    /\ UNCHANGED <<material, orders, nextOrderId, deliveries, agents, lock, sent,
                   failed_emails, now, scenario>>

\* The stock the transaction writes back: m.stock_level -= order.quantity
Reserve(stock_level, quantity) == stock_level - quantity

\* order.total_price = m.unit_price * order.quantity, prices counted in the
\* smallest unit of the two-decimal field
TotalPrice_UnitOnly(unit_price, quantity) == unit_price

TotalPrice(unit_price, quantity) == unit_price * quantity

\* with transaction.atomic(): select_for_update, the stock test, order.save(),
\* m.save() and assign_delivery_agent(order), all still uncommitted
PlaceLock(r, agents_qs) ==
    /\ req[r].pc = "place_lock"
    /\ lock[req[r].material] = NoReq
    /\ agents_qs \in Perms(agents)
    /\ LET m == material[req[r].material]
           q == req[r].quantity
           c == LockedCheck(q, m.stock_level)
           oid == nextOrderId
           assigned_delivery == assign_delivery_agent(oid, agents_qs, deliveries,
                                                      OrderAttrs(SupplierAddress))
           order == OrderSave(NoOrder,
                              [engineer |-> req[r].engineer, material |-> req[r].material,
                               quantity |-> q, total_price |-> TotalPrice(m.unit_price, q),
                               status |-> "pending"],
                              m.unit_price,
                              {"engineer", "material", "quantity", "total_price", "status"})
       IN  IF c # "ok"
           THEN /\ req' = [req EXCEPT ![r] = Done("place", c)]
                /\ UNCHANGED <<lock, nextOrderId>>
           ELSE /\ nextOrderId <= IdCap
                /\ req' = [req EXCEPT ![r] =
                      [pc |-> "place_notify", material |-> req[r].material, quantity |-> q,
                       oid |-> oid, order |-> order,
                       m |-> [m EXCEPT !.stock_level = Reserve(m.stock_level, q)],
                       assigned |-> assigned_delivery.returned # NoDelivery,
                       delivery |-> IF assigned_delivery.created
                                    THEN assigned_delivery.returned ELSE NoDelivery]]
                /\ lock' = [lock EXCEPT ![req[r].material] = r]
                /\ nextOrderId' = nextOrderId + 1
    /\ UNCHANGED <<material, orders, deliveries, agents, sent, failed_emails, now, scenario>>

PlaceNotify_FailAborts(r, backend, persist_ok) ==
    /\ req[r].pc = "place_notify"
    /\ SendMail(<<"placed", req[r].oid>>, backend, persist_ok)
    /\ req' = [req EXCEPT ![r] = IF backend = "sent" THEN [req[r] EXCEPT !.pc = "place_commit"]
                                 ELSE Done("place", "error")]
    /\ lock' = IF backend = "sent" THEN lock ELSE [lock EXCEPT ![req[r].material] = NoReq]
    /\ UNCHANGED <<material, orders, nextOrderId, deliveries, agents, now, scenario>>

\* send_order_placed(order), inside the atomic block; a failure is swallowed
PlaceNotify(r, backend, persist_ok) ==
    /\ req[r].pc = "place_notify"
    /\ SendMail(<<"placed", req[r].oid>>, backend, persist_ok)
    /\ req' = [req EXCEPT ![r].pc = "place_commit"]
    /\ UNCHANGED <<material, orders, nextOrderId, deliveries, agents, lock, now, scenario>>

\* leaving the atomic block: the transaction commits and the lock is released
PlaceCommit(r) ==
    /\ req[r].pc = "place_commit"
    /\ material' = [material EXCEPT ![req[r].material] = req[r].m]
    /\ orders' = [orders EXCEPT ![req[r].oid] = req[r].order]
    /\ deliveries' = IF req[r].delivery = NoDelivery THEN deliveries
                     ELSE Append(deliveries, req[r].delivery)
    /\ lock' = [lock EXCEPT ![req[r].material] = NoReq]
    /\ req' = [req EXCEPT ![r] =
                  [pc |-> "done", kind |-> "place",
                   outcome |-> IF req[r].assigned THEN "ok" ELSE "ok_no_agent",
                   oid |-> req[r].oid]]
    /\ UNCHANGED <<nextOrderId, agents, sent, failed_emails, now, scenario>>

PlaceAbort_OrderKept(r) ==
    /\ req[r].pc \in {"place_notify", "place_commit"}
    /\ orders' = [orders EXCEPT ![req[r].oid] = req[r].order]
    /\ lock' = [lock EXCEPT ![req[r].material] = NoReq]
    /\ req' = [req EXCEPT ![r] = Done("place", "error")]
    /\ UNCHANGED <<material, nextOrderId, deliveries, agents, sent, failed_emails, now, scenario>>

\* an exception inside the atomic block: everything it wrote is rolled back
PlaceAbort(r) ==
    /\ req[r].pc \in {"place_notify", "place_commit"}
    /\ lock' = [lock EXCEPT ![req[r].material] = NoReq]
    /\ req' = [req EXCEPT ![r] = Done("place", "error")]
    /\ UNCHANGED <<material, orders, nextOrderId, deliveries, agents, sent, failed_emails,
                   now, scenario>>

(* ----------------------------- cancel_order ---------------------------- *)
\* get_object_or_404(Order, pk, engineer=request.user.profile) and the
\* status test, both on the row as read without a lock
CancelGuard_AnyStatus(status) == TRUE

CancelGuard(status) == status \in cancellable

CancelRead(r, actor, oid) ==
    /\ Free(r)
    /\ req' = [req EXCEPT ![r] =
                  IF orders[oid] = NoOrder \/ orders[oid].engineer # actor
                  THEN Done("cancel", "not_found")
                  ELSE IF ~CancelGuard(orders[oid].status)
                  THEN Done("cancel", "invalid_transition")
                  ELSE [pc |-> "cancel_tx", oid |-> oid, actor |-> actor, order |-> orders[oid]]]
    /\ UNCHANGED <<material, orders, nextOrderId, deliveries, agents, lock, sent,
                   failed_emails, now, scenario>>

Release_One(stock_level, quantity) == stock_level + 1

\* The stock the cancellation writes back: stock_level + order.quantity
Release(stock_level, quantity) == stock_level + quantity

CancelCommit_ClosesDelivery(r) ==
    /\ req[r].pc = "cancel_tx"
    /\ LET o == req[r].order
           m == material[o.material]
       IN  /\ lock[o.material] = NoReq
           /\ material' = [material EXCEPT ![o.material].stock_level =
                               Release(m.stock_level, o.quantity)]
           /\ orders' = [orders EXCEPT ![req[r].oid] =
                             OrderSave(orders[req[r].oid], [o EXCEPT !.status = "cancelled"],
                                       m.unit_price, {"status"})]
           /\ deliveries' = [i \in DOMAIN deliveries |->
                                 IF deliveries[i].order = req[r].oid
                                 THEN [deliveries[i] EXCEPT !.delivered_at = now]
                                 ELSE deliveries[i]]
    /\ req' = [req EXCEPT ![r] =
                  [pc |-> "done", kind |-> "cancel", outcome |-> "ok", oid |-> req[r].oid]]
    /\ UNCHANGED <<nextOrderId, agents, lock, sent, failed_emails, now, scenario>>

\* with transaction.atomic(): select_for_update, material.save(update_fields=
\* ["stock_level"]), order.save(update_fields=["status"]); then the commit
CancelCommit(r) ==
    /\ req[r].pc = "cancel_tx"
    /\ LET o == req[r].order
           m == material[o.material]
       IN  /\ lock[o.material] = NoReq
           /\ material' = [material EXCEPT ![o.material].stock_level =
                               Release(m.stock_level, o.quantity)]
           /\ orders' = [orders EXCEPT ![req[r].oid] =
                             OrderSave(orders[req[r].oid], [o EXCEPT !.status = "cancelled"],
                                       m.unit_price, {"status"})]
    /\ req' = [req EXCEPT ![r] =
                  [pc |-> "done", kind |-> "cancel", outcome |-> "ok", oid |-> req[r].oid]]
    /\ UNCHANGED <<nextOrderId, deliveries, agents, lock, sent, failed_emails, now, scenario>>

\* an exception inside the atomic block: rolled back, "Could not cancel"
CancelAbort(r) ==
    /\ req[r].pc = "cancel_tx"
    /\ req' = [req EXCEPT ![r] = Done("cancel", "error")]
    /\ UNCHANGED <<material, orders, nextOrderId, deliveries, agents, lock, sent,
                   failed_emails, now, scenario>>

(* ------------------------ delivery_update_status ---------------------- *)
\* get_object_or_404(Delivery, pk), the assigned-agent test and the action test
AdvanceRead(r, actor, d, action, notes) ==
    /\ Free(r)
    /\ req' = [req EXCEPT ![r] =
                  IF d \notin DOMAIN deliveries
                  THEN Done("advance", "not_found")
                  ELSE IF deliveries[d].delivery_agent # NoAgent /\ deliveries[d].delivery_agent # actor
                  THEN Done("advance", "forbidden")
                  ELSE IF action \notin allowed
                  THEN Done("advance", "invalid_action")
                  ELSE [pc |-> "advance_tx", d |-> d, actor |-> actor, action |-> action,
                        notes |-> notes, delivery |-> deliveries[d]]]
    /\ UNCHANGED <<material, orders, nextOrderId, deliveries, agents, lock, sent,
                   failed_emails, now, scenario>>

\* The status a deliver action writes to the parent order
DeliverStatus(status) == "delivered"

AdvanceBody_Redispatch(delivery, action, notes, t0, t1, t2) ==
    IF action = "dispatched" THEN [delivery EXCEPT !.dispatched_at = t1]
    ELSE [delivery EXCEPT !.delivered_at = t1, !.dispatched_at = t2]

AdvanceBody_NoBackfill(delivery, action, notes, t0, t1, t2) ==
    IF action = "dispatched"
    THEN IF delivery.dispatched_at = Null THEN [delivery EXCEPT !.dispatched_at = t1] ELSE delivery
    ELSE IF delivery.delivered_at = Null THEN [delivery EXCEPT !.delivered_at = t1] ELSE delivery

\* The Delivery object after the body of the atomic block, the three clock
\* reads being t0 <= t1 <= t2
AdvanceBody(delivery, action, notes, t0, t1, t2) ==
    LET noted == IF notes # "" THEN [delivery EXCEPT !.notes = Append(@, <<t0, notes>>)]
                 ELSE delivery
    IN  IF action = "dispatched"
        THEN IF noted.dispatched_at = Null THEN [noted EXCEPT !.dispatched_at = t1] ELSE noted
        ELSE LET d1 == IF noted.delivered_at = Null THEN [noted EXCEPT !.delivered_at = t1]
                       ELSE noted
             IN  IF d1.dispatched_at = Null THEN [d1 EXCEPT !.dispatched_at = t2] ELSE d1

\* which email the view sends after the save
DispatchOrDeliver(delivery, action) ==
    IF action = "dispatched" /\ delivery.dispatched_at = Null THEN "dispatched"
    ELSE IF action = "delivered" /\ delivery.delivered_at = Null THEN "delivered"
    ELSE "none"

\* with transaction.atomic(): the body, delivery.order.save(update_fields=
\* ["status"]) and delivery.save() of the whole row; then the email
AdvanceCommit(r, t0, t1, t2, backend, persist_ok) ==
    /\ req[r].pc = "advance_tx"
    /\ now <= t0 /\ t0 <= t1 /\ t1 <= t2 /\ t2 <= MaxClock
    /\ Len(req[r].delivery.notes) < MaxNotes \/ req[r].notes = ""
    /\ LET old == req[r].delivery
           new == AdvanceBody(old, req[r].action, req[r].notes, t0, t1, t2)
           oid == old.order
           mail == DispatchOrDeliver(old, req[r].action)
       IN  /\ deliveries' = [deliveries EXCEPT ![req[r].d] = new]
           /\ orders' = IF req[r].action = "delivered" /\ orders[oid] # NoOrder
                        THEN [orders EXCEPT ![oid] =
                                 OrderSave(orders[oid],
                                           [orders[oid] EXCEPT !.status = DeliverStatus(orders[oid].status)],
                                           material[orders[oid].material].unit_price, {"status"})]
                        ELSE orders
           /\ IF mail # "none" THEN SendMail(<<mail, oid>>, backend, persist_ok)
              ELSE UNCHANGED <<sent, failed_emails>>
    /\ now' = t2
    /\ req' = [req EXCEPT ![r] = Done("advance", "ok")]
    /\ UNCHANGED <<material, nextOrderId, agents, lock, scenario>>

\* an exception inside the atomic block: rolled back, "Could not update"
AdvanceAbort(r) ==
    /\ req[r].pc = "advance_tx"
    /\ req' = [req EXCEPT ![r] = Done("advance", "error")]
    /\ UNCHANGED <<material, orders, nextOrderId, deliveries, agents, lock, sent,
                   failed_emails, now, scenario>>

(* ----------------------- supplier_edit_material ----------------------- *)
\* MaterialForm.save(): the posted unit_price, stock_level and is_active
\* replace the row's; the UPDATE waits for the row lock
EditMaterial(m, row) ==
    /\ lock[m] = NoReq
    /\ row \in MaterialRows
    /\ row # material[m]
    /\ material' = [material EXCEPT ![m] = row]
    /\ UNCHANGED <<orders, nextOrderId, deliveries, agents, lock, req, sent, failed_emails,
                   now, scenario>>

\* The edit as the supplier makes it: the GET renders the form with the row
\* as it is
EditOpen(r, m) ==
    /\ Free(r)
    /\ req' = [req EXCEPT ![r] =
                  IF material[m] = NoMaterial THEN Done("edit", "not_found")
                  ELSE [pc |-> "edit_form", material |-> m, initial |-> material[m]]]
    /\ UNCHANGED <<material, orders, nextOrderId, deliveries, agents, lock, sent, failed_emails,
                   now, scenario>>

\* the POST of the form: MaterialForm.save() writes every field of the
\* posted row; the UPDATE waits for the row lock
EditPost(r, row) ==
    /\ req[r].pc = "edit_form"
    /\ row \in MaterialRows
    /\ IF material[req[r].material] = NoMaterial
       THEN /\ req' = [req EXCEPT ![r] = Done("edit", "not_found")]
            /\ UNCHANGED material
       ELSE /\ lock[req[r].material] = NoReq
            /\ material' = [material EXCEPT ![req[r].material] = row]
            /\ req' = [req EXCEPT ![r] = Done("edit", "ok")]
    /\ UNCHANGED <<orders, nextOrderId, deliveries, agents, lock, sent, failed_emails, now,
                   scenario>>

(* ---------------------- supplier_delete_material ---------------------- *)
\* material.delete(): Order.material and Delivery.order are on_delete=CASCADE,
\* so the Orders of the material and their Deliveries go with it.  Taken
\* while no request is in progress.
DeleteMaterial(m) ==
    /\ material[m] # NoMaterial
    /\ lock[m] = NoReq
    /\ \A r \in AllSlots : Free(r)
    /\ material' = [material EXCEPT ![m] = NoMaterial]
    /\ orders' = [o \in OrderIds |->
                     IF orders[o] # NoOrder /\ orders[o].material = m THEN NoOrder ELSE orders[o]]
    /\ deliveries' = [i \in DOMAIN deliveries |->
                         IF orders'[deliveries[i].order] = NoOrder THEN NoDelivery
                         ELSE deliveries[i]]
    /\ UNCHANGED <<nextOrderId, agents, lock, req, sent, failed_emails, now, scenario>>

(* ------------------------- Profile deletion --------------------------- *)
\* Delivery.delivery_agent is on_delete=SET_NULL: deleting the Profile of an
\* agent leaves the agent's Deliveries with delivery_agent = NULL.  Taken
\* while no request holds a Delivery in memory.
ProfileDelete(a) ==
    /\ a \in agents
    /\ \A r \in AllSlots : Free(r)
    /\ agents' = agents \ {a}
    /\ deliveries' = [i \in DOMAIN deliveries |->
                          IF deliveries[i].delivery_agent = a
                          THEN [deliveries[i] EXCEPT !.delivery_agent = NoAgent]
                          ELSE deliveries[i]]
    /\ UNCHANGED <<material, orders, nextOrderId, lock, req, sent, failed_emails, now, scenario>>

(* ---------------------------- register_view --------------------------- *)
\* a new user registers with role "delivery": one more active agent
RegisterAgent(a) ==
    /\ a \in Agents \ agents
    /\ agents' = agents \cup {a}
    /\ UNCHANGED <<material, orders, nextOrderId, deliveries, lock, req, sent, failed_emails, now,
                   scenario>>

(* ------------------------------ responses ----------------------------- *)
\* the response reaches the client and the worker is free again
Return(r) ==
    /\ req[r].pc = "done"
    /\ req' = [req EXCEPT ![r] = Idle]
    /\ UNCHANGED <<material, orders, nextOrderId, deliveries, agents, lock, sent,
                   failed_emails, now, scenario>>

(* ------------------------------ the system ---------------------------- *)
InitDb ==
    /\ orders = [o \in OrderIds |-> NoOrder]
    /\ nextOrderId = 1
    /\ deliveries = <<>>
    /\ lock = [m \in Materials |-> NoReq]
    /\ req = [r \in AllSlots |-> Idle]
    /\ sent = {}
    /\ failed_emails = {}
    /\ now = 1

\* concurrent requests against a fully stocked material
Init ==
    /\ InitDb
    /\ material \in [Materials -> {row \in MaterialRows :
                                      row.stock_level = MaxStock /\ row.unit_price = MaxPrice}]
    /\ agents \in {{}, {"a1"}, Agents}
    /\ scenario = [kind |-> "any"]

\* one request at a time, the supplier editing the material in between
InitSeq ==
    /\ InitDb
    /\ material \in [Materials -> MaterialRows]
    /\ agents \in {{}, {"a1"}, Agents}
    /\ scenario = [kind |-> "seq"]

Workers == IF scenario.kind \in {"seq", "deferred"} THEN {1} ELSE Slots

\* A finished request hands its response back before anything else is
\* scheduled, and a new request takes the lowest free worker: both only drop
\* interleavings that differ in the names of the workers.
Quiet == \A r \in AllSlots : req[r].pc # "done"
Accepts(r) == \A r2 \in Workers : r2 < r => req[r2].pc # "idle"

\* the mail backend works unless the scenario is about its failures
Backends == IF scenario.kind = "mail" THEN BackendOutcomes ELSE {"sent"}
PersistOks == IF scenario.kind = "mail" THEN BOOLEAN ELSE {TRUE}

DoPlaceLookup == Quiet /\ \E r \in Workers, e \in Buyers, m \in Materials :
                     Accepts(r) /\ PlaceLookup(r, e, m)
DoPlaceValidate == Quiet /\ \E r \in Workers, q \in 0..MaxQty : PlaceValidate(r, q)
DoPlaceLock == Quiet /\ \E r \in Workers, agents_qs \in Perms(agents) : PlaceLock(r, agents_qs)
DoPlaceNotify == Quiet /\ \E r \in Workers, backend \in Backends, persist_ok \in PersistOks :
                     PlaceNotify(r, backend, persist_ok)
DoPlaceCommit == Quiet /\ \E r \in Workers : PlaceCommit(r)
DoPlaceAbort == Quiet /\ \E r \in Workers : PlaceAbort(r)
DoCancelRead == Quiet /\ \E r \in Workers, actor \in Engineers, oid \in 1..MaxOrders :
                    Accepts(r) /\ CancelRead(r, actor, oid)
DoCancelCommit == Quiet /\ \E r \in Workers : CancelCommit(r)
DoCancelAbort == Quiet /\ \E r \in Workers : CancelAbort(r)
DoAdvanceRead == Quiet /\ \E r \in Workers, actor \in agents, d \in 1..MaxOrders,
                              action \in allowed \cup {"other"} :
                     Accepts(r) /\ AdvanceRead(r, actor, d, action, "")
DoAdvanceCommit == Quiet /\ \E r \in Workers, backend \in Backends, persist_ok \in PersistOks :
                       AdvanceCommit(r, now, now, now, backend, persist_ok)
DoAdvanceAbort == Quiet /\ \E r \in Workers : AdvanceAbort(r)
DoEditMaterial == Quiet /\ \E m \in Materials, row \in MaterialRows : EditMaterial(m, row)
DoReturn == \E r \in Workers : Return(r)

Next ==
    \/ DoPlaceLookup
    \/ DoPlaceValidate
    \/ DoPlaceLock
    \/ DoPlaceNotify
    \/ DoPlaceCommit
    \/ DoPlaceAbort
    \/ DoCancelRead
    \/ DoCancelCommit
    \/ DoCancelAbort
    \/ DoAdvanceRead
    \/ DoAdvanceCommit
    \/ DoAdvanceAbort
    \/ DoReturn

Spec == Init /\ [][Next]_vars

NextSeq == Next \/ DoEditMaterial

SpecSeq == InitSeq /\ [][NextSeq]_vars

(* --------------- scenario: N placements racing for one material ------- *)
\* scenario.n requests, all for scenario.q units of a material that starts
\* with scenario.stock units; nothing else runs and no transaction fails
InitRace ==
    /\ InitDb
    /\ \E stock \in 0..MaxStock, q \in 1..MaxQty, n \in 1..NumRace :
          /\ material = [m \in Materials |->
                            [stock_level |-> stock, unit_price |-> MaxPrice, is_active |-> TRUE]]
          /\ scenario = [kind |-> "race", stock |-> stock, q |-> q, n |-> n]
    /\ agents = Agents

Racers == 1..scenario.n

RaceLookup == \E r \in Racers : PlaceLookup(r, "e1", "m1")
RaceValidate == \E r \in Racers : PlaceValidate(r, scenario.q)
RaceLock == \E r \in Racers, agents_qs \in Perms(agents) : PlaceLock(r, agents_qs)
RaceNotify == \E r \in Racers : PlaceNotify(r, "sent", TRUE)
RaceCommit == \E r \in Racers : PlaceCommit(r)

NextRace == RaceLookup \/ RaceValidate \/ RaceLock \/ RaceNotify \/ RaceCommit

SpecRace == InitRace /\ [][NextRace]_vars

(* --------------- scenario: one placement, then its cancellation ------- *)
\* worker 1 places the only order and then serves delivery updates, worker
\* 2 serves one cancellation of that order; nothing else touches the material
InitRoundTrip ==
    /\ InitDb
    /\ material \in [Materials -> {row \in MaterialRows : row.is_active}]
    /\ agents \in {{}, Agents}
    /\ scenario = [kind |-> "roundtrip", stock |-> material["m1"].stock_level]

TripLookup == Quiet /\ nextOrderId = 1 /\ \E e \in Engineers : PlaceLookup(1, e, "m1")
TripValidate == Quiet /\ \E q \in 0..MaxQty : PlaceValidate(1, q)
TripLock == Quiet /\ \E agents_qs \in Perms(agents) : PlaceLock(1, agents_qs)
TripNotify == Quiet /\ \E backend \in Backends, persist_ok \in PersistOks :
                  PlaceNotify(1, backend, persist_ok)
TripCommit == Quiet /\ PlaceCommit(1)
TripAbort == Quiet /\ PlaceAbort(1)
TripCancelRead == /\ orders[1] # NoOrder
                  /\ \E actor \in Engineers : CancelRead(2, actor, 1)
TripCancelCommit == Quiet /\ CancelCommit(2)
TripCancelAbort == Quiet /\ CancelAbort(2)
TripAdvanceRead == Quiet /\ \E actor \in agents, action \in allowed : AdvanceRead(1, actor, 1, action, "")
TripAdvanceCommit == Quiet /\ \E backend \in Backends, persist_ok \in PersistOks :
                         AdvanceCommit(1, now, now, now, backend, persist_ok)
TripReturn == Return(1)

NextRoundTrip ==
    \/ TripLookup \/ TripValidate \/ TripLock \/ TripNotify \/ TripCommit \/ TripAbort
    \/ TripCancelRead \/ TripCancelCommit \/ TripCancelAbort
    \/ TripAdvanceRead \/ TripAdvanceCommit \/ TripReturn

SpecRoundTrip == InitRoundTrip /\ [][NextRoundTrip]_vars

(* --------------- scenario: updates of one Delivery -------------------- *)
\* The state after one placement that was assigned to agent a1; two workers
\* serve delivery updates of that Delivery, with notes and a running clock.
PlacedOrder == [engineer |-> "e1", material |-> "m1", quantity |-> 1,
                total_price |-> MaxPrice, status |-> "pending"]

InitDelivery ==
    /\ material = [m \in Materials |->
                      [stock_level |-> MaxStock - 1, unit_price |-> MaxPrice, is_active |-> TRUE]]
    /\ orders = [o \in OrderIds |-> IF o = 1 THEN PlacedOrder ELSE NoOrder]
    /\ nextOrderId = 2
    /\ deliveries = << [order |-> 1, delivery_agent |-> "a1", delivery_location |-> "addr",
                        dispatched_at |-> Null, delivered_at |-> Null, notes |-> <<>>] >>
    /\ lock = [m \in Materials |-> NoReq]
    /\ req = [r \in AllSlots |-> Idle]
    /\ sent = {<<"placed", 1>>}
    /\ failed_emails = {}
    /\ now = 1
    /\ agents = Agents
    /\ scenario = [kind |-> "delivery"]

DlvAdvanceRead ==
    Quiet /\ \E r \in Slots, actor \in agents, action \in allowed, notes \in {"", "n"} :
                 /\ Accepts(r)
                 /\ notes = "" \/ Len(deliveries[1].notes) < MaxNotes
                 /\ AdvanceRead(r, actor, 1, action, notes)
DlvAdvanceCommit ==
    Quiet /\ \E r \in Slots, t0 \in now..MaxClock, t1 \in now..MaxClock, t2 \in now..MaxClock :
                 AdvanceCommit(r, t0, t1, t2, "sent", TRUE)
DlvAdvanceAbort == Quiet /\ \E r \in Slots : AdvanceAbort(r)
DlvProfileDelete == Quiet /\ \E a \in agents : ProfileDelete(a)
DlvReturn == \E r \in Slots : Return(r)

NextDelivery ==
    DlvAdvanceRead \/ DlvAdvanceCommit \/ DlvAdvanceAbort \/ DlvProfileDelete \/ DlvReturn

SpecDelivery == InitDelivery /\ [][NextDelivery]_vars

(* --------------- scenario: one call of assign_delivery_agent --------- *)
\* The function is applied once to an order scenario.oid, over a Delivery
\* table of up to MaxDeliveries rows and a Profile table; scenario keeps the
\* arguments and what the call returned.
DeliveryTimes == {<<Null, Null>>, <<1, Null>>, <<1, 1>>}

AssignTables(n) ==
    { [i \in 1..n |-> [order |-> i, delivery_agent |-> f[i][1], delivery_location |-> "",
                        dispatched_at |-> f[i][2][1], delivered_at |-> f[i][2][2],
                        notes |-> <<>>]] :
      f \in [1..n -> (Agents \cup {NoAgent}) \X DeliveryTimes] }

InitAssign ==
    /\ material = [m \in Materials |->
                      [stock_level |-> MaxStock, unit_price |-> MaxPrice, is_active |-> TRUE]]
    /\ lock = [m \in Materials |-> NoReq]
    /\ req = [r \in AllSlots |-> Idle]
    /\ sent = {}
    /\ failed_emails = {}
    /\ now = 1
    /\ \E n \in 0..MaxDeliveries, oid \in 1..(MaxDeliveries + 1),
          profiles \in [Agents -> [role : {"delivery", "engineer"}, is_active : BOOLEAN]],
          address \in {"", "addr"} :
          /\ oid <= n + 1
          /\ deliveries \in AssignTables(n)
          /\ orders = [o \in OrderIds |->
                          IF o <= n /\ deliveries[o].delivered_at # Null
                          THEN [PlacedOrder EXCEPT !.status = "delivered"]
                          ELSE IF o <= n \/ o = oid THEN PlacedOrder
                          ELSE NoOrder]
          /\ nextOrderId = n + 2
          /\ agents = ActiveAgents(profiles)
          /\ scenario = [kind |-> "assign", oid |-> oid, profiles |-> profiles,
                         address |-> address,
                         called |-> FALSE, agents_qs |-> <<>>, before |-> <<>>,
                         returned |-> NoDelivery, created |-> FALSE]

AssignCall ==
    /\ ~scenario.called
    /\ \E agents_qs \in Perms(agents) :
          LET res == assign_delivery_agent(scenario.oid, agents_qs, deliveries,
                                           OrderAttrs(SupplierAddress))
          IN  /\ deliveries' = IF res.created THEN Append(deliveries, res.returned)
                               ELSE deliveries
              /\ scenario' = [scenario EXCEPT !.called = TRUE, !.agents_qs = agents_qs,
                                              !.before = deliveries,
                                              !.returned = res.returned,
                                              !.created = res.created]
    /\ UNCHANGED <<material, orders, nextOrderId, agents, lock, req, sent, failed_emails, now>>

SpecAssign == InitAssign /\ [][AssignCall]_vars

(* --------------- scenario: placements before any agent exists -------- *)
\* One worker serves placements; there is no delivery agent at first and
\* agents register later.  Every request in progress is served to its end
\* and whatever can happen next eventually does.
InitDeferred ==
    /\ InitDb
    /\ material = [m \in Materials |->
                      [stock_level |-> MaxStock, unit_price |-> MaxPrice, is_active |-> TRUE]]
    /\ agents = {}
    /\ scenario = [kind |-> "deferred"]

DfrRegister == Quiet /\ \E a \in Agents : RegisterAgent(a)
\* no request arrives once the model's Order keys are used up
DfrPlaceLookup == nextOrderId <= IdCap /\ DoPlaceLookup

NextDeferred ==
    \/ DfrPlaceLookup \/ DoPlaceValidate \/ DoPlaceLock \/ DoPlaceNotify \/ DoPlaceCommit
    \/ DoPlaceAbort \/ DoReturn \/ DfrRegister

SpecDeferred == InitDeferred /\ [][NextDeferred]_vars /\ WF_vars(NextDeferred)

(* --------------- scenario: a mail backend that may fail --------------- *)
\* the placement, cancellation and delivery updates of one order, every send
\* ending in any of the backend's outcomes
InitMail ==
    /\ InitDb
    /\ material \in [Materials -> {row \in MaterialRows : row.is_active}]
    /\ agents \in {{}, Agents}
    /\ scenario = [kind |-> "mail", stock |-> material["m1"].stock_level]

SpecMail == InitMail /\ [][NextRoundTrip]_vars

(* --------------- scenario: the supplier and one placement ------------- *)
\* worker 1 serves the placement of one order; on worker 2 the supplier of
\* the material edits it, leaving the stock_level of the form as it was
\* rendered, or deletes it
InitSupplier ==
    /\ InitDb
    /\ material \in [Materials -> {row \in MaterialRows : row.is_active}]
    /\ agents \in {{}, Agents}
    /\ scenario = [kind |-> "supplier", stock |-> material["m1"].stock_level]

SupEditOpen == Quiet /\ \E m \in Materials : EditOpen(2, m)
SupEditPost ==
    /\ Quiet
    /\ req[2].pc = "edit_form"
    /\ \E unit_price \in 0..MaxPrice, is_active \in BOOLEAN :
          EditPost(2, [stock_level |-> req[2].initial.stock_level,
                       unit_price |-> unit_price, is_active |-> is_active])
SupDelete == Quiet /\ \E m \in Materials : DeleteMaterial(m)
SupReturn == Return(2)

NextSupplier ==
    \/ TripLookup \/ TripValidate \/ TripLock \/ TripNotify \/ TripCommit \/ TripAbort
    \/ TripReturn \/ SupEditOpen \/ SupEditPost \/ SupDelete \/ SupReturn

SpecSupplier == InitSupplier /\ [][NextSupplier]_vars

(* --------------- scenario: cancellations of one order ----------------- *)
\* The state after one placement of one unit, assigned to agent a1; two
\* workers serve cancellations of that order and updates of its Delivery.
NextCancel ==
    \/ DoCancelRead \/ DoCancelCommit \/ DoCancelAbort
    \/ DoAdvanceRead \/ DoAdvanceCommit \/ DoAdvanceAbort \/ DoReturn

SpecCancel == InitDelivery /\ [][NextCancel]_vars

(* --------------- scenario: placements on two materials --------------- *)
\* Two fully stocked materials and two active agents without a Delivery;
\* two workers serve placements, nothing is delivered and no agent changes.
Catalogue == {"m1", "m2"}

InitBalance ==
    /\ orders = [o \in OrderIds |-> NoOrder]
    /\ nextOrderId = 1
    /\ deliveries = <<>>
    /\ lock = [m \in Catalogue |-> NoReq]
    /\ req = [r \in AllSlots |-> Idle]
    /\ sent = {}
    /\ failed_emails = {}
    /\ now = 1
    /\ material = [m \in Catalogue |->
                      [stock_level |-> MaxStock, unit_price |-> MaxPrice, is_active |-> TRUE]]
    /\ agents = Agents
    /\ scenario = [kind |-> "balance"]

BalPlaceLookup == Quiet /\ \E r \in Slots, m \in Catalogue :
                      Accepts(r) /\ PlaceLookup(r, "e1", m)

NextBalance ==
    \/ BalPlaceLookup \/ DoPlaceValidate \/ DoPlaceLock \/ DoPlaceNotify
    \/ DoPlaceCommit \/ DoPlaceAbort \/ DoReturn

SpecBalance == InitBalance /\ [][NextBalance]_vars

(* ------------------- the claims: stock and placement ----------------- *)
Exists(o) == orders[o] # NoOrder
Created(o) == orders[o] = NoOrder /\ orders'[o] # NoOrder
PlaceOk == {"ok", "ok_no_agent"}
Finishes(r, kind) == req[r].pc # "done" /\ req'[r].pc = "done" /\ req'[r].kind = kind

\* C1: in every reachable state, whatever the interleaving of place_order,
\* cancel_order and delivery_update_status requests, no Material has a
\* negative stock_level.
C1_StockNonNegative == \A m \in Materials : material[m].stock_level >= 0

\* two placements went through and used the stock up
C1_Witness ==
    /\ material["m1"].stock_level = 0
    /\ Exists(1) /\ Exists(2)

\* C3: place_order is atomic.  An Order row appears in a step exactly when
\* the stock of its material drops by the order's quantity in that step, a
\* Delivery row appears only together with its Order, and a placement that
\* ends in anything but success leaves Material, Order and Delivery rows as
\* they were.
C3_PlaceAtomic ==
    [][ /\ \A o \in OrderIds : Created(o) =>
               material'[orders'[o].material].stock_level
                   = material[orders'[o].material].stock_level - orders'[o].quantity
        /\ \A m \in Materials : material'[m].stock_level < material[m].stock_level =>
               \E o \in OrderIds : /\ Created(o)
                                   /\ orders'[o].material = m
                                   /\ orders'[o].quantity
                                          = material[m].stock_level - material'[m].stock_level
        /\ Len(deliveries') > Len(deliveries) =>
               /\ Len(deliveries') = Len(deliveries) + 1
               /\ \E o \in OrderIds : Created(o) /\ deliveries'[Len(deliveries')].order = o
        /\ \A r \in AllSlots : Finishes(r, "place") /\ req'[r].outcome \notin PlaceOk =>
               UNCHANGED <<material, orders, deliveries>>
      ]_vars

\* one placement committed, a later one failed inside its transaction
C3_Witness ==
    /\ \E r \in AllSlots : req[r] = Done("place", "error")
    /\ Exists(1) /\ ~Exists(2) /\ nextOrderId = 3
    /\ material["m1"].stock_level = MaxStock - orders[1].quantity

\* C4: a place_order whose quantity exceeds the stock_level it reads, in the
\* form or under the row lock, ends with the insufficient-stock outcome and
\* changes nothing: no Order, no Delivery, no stock change, no email.  No
\* quantity above the current stock gets past either test.
C4_InsufficientStockNoChange ==
    [][ \A r \in AllSlots :
          /\ Finishes(r, "place") /\ req'[r].outcome = "insufficient_stock" =>
                 UNCHANGED <<material, orders, nextOrderId, deliveries, sent, lock>>
          /\ req[r].pc = "place_form" /\ req'[r].pc = "place_lock" =>
                 req'[r].quantity <= material[req[r].material].stock_level
          /\ req[r].pc = "place_lock" /\ req'[r] # req[r]
               /\ req[r].quantity > material[req[r].material].stock_level =>
                 req'[r] = Done("place", "insufficient_stock")
      ]_vars

\* a request was refused for lack of stock after an earlier order took it
C4_Witness ==
    /\ \E r \in AllSlots : req[r] = Done("place", "insufficient_stock")
    /\ Exists(1)
    /\ material["m1"].stock_level < MaxQty

\* C5: a successful place_order creates the Order with status pending, the
\* requested quantity and total_price = unit_price x quantity, the unit
\* price being the one read under the row lock (which is still the committed
\* one), and lowers the stock_level by exactly the quantity.
C5_PlacedOrder ==
    [][ \A r \in AllSlots :
          Finishes(r, "place") /\ req'[r].outcome \in PlaceOk =>
              LET o == req'[r].oid
                  m == req[r].material
                  q == req[r].quantity
              IN  /\ Created(o)
                  /\ orders'[o].status = "pending"
                  /\ orders'[o].quantity = q
                  /\ orders'[o].material = m
                  /\ orders'[o].total_price = req[r].m.unit_price * q
                  /\ req[r].m.unit_price = material[m].unit_price
                  /\ material'[m].stock_level = material[m].stock_level - q
                  /\ material'[m].unit_price = material[m].unit_price
      ]_vars

\* the largest order at the highest price has just been placed
C5_Witness ==
    /\ \E r \in AllSlots : req[r].pc = "done" /\ req[r].kind = "place" /\ req[r].outcome \in PlaceOk
    /\ Exists(1)
    /\ orders[1].quantity = MaxQty
    /\ orders[1].total_price = MaxPrice * MaxQty
    /\ orders[1].status = "pending"

C8_CancelGuarded ==
    [][ /\ \A r \in AllSlots :
              /\ req[r].pc = "idle" /\ req'[r].pc = "cancel_tx" =>
                     /\ Exists(req'[r].oid)
                     /\ req'[r].actor = orders[req'[r].oid].engineer
                     /\ orders[req'[r].oid].status \in cancellable
                     /\ UNCHANGED <<material, orders, deliveries>>
              /\ Finishes(r, "cancel") /\ req'[r].outcome # "ok" =>
                     UNCHANGED <<material, orders, deliveries>>
              /\ Finishes(r, "cancel") /\ req'[r].outcome = "ok" =>
                     LET o == req[r].oid
                     IN  /\ req[r].actor = orders[o].engineer
                         /\ orders[o].status \in cancellable
                         /\ orders'[o].status = "cancelled"
                         /\ material'[orders[o].material].stock_level
                                = material[orders[o].material].stock_level + orders[o].quantity
        /\ \A o \in OrderIds :
              Exists(o) /\ orders[o].status # "cancelled" /\ orders'[o].status = "cancelled" =>
                  \E r \in AllSlots : /\ req[r].pc = "cancel_tx" /\ req[r].oid = o
                                      /\ Finishes(r, "cancel") /\ req'[r].outcome = "ok"
      ]_vars

\* a cancellation of a delivered or already cancelled order was turned away
C8_Witness ==
    /\ \E r \in AllSlots : req[r] = Done("cancel", "invalid_transition")
    /\ \E o \in OrderIds : Exists(o) /\ orders[o].status = "delivered"

\* C9: once an Order is delivered or cancelled its status never changes
\* again; a deliver action on the Delivery of a cancelled order leaves the
\* order cancelled.
C9_TerminalStatusStable ==
    [][ \A o \in OrderIds :
            Exists(o) /\ orders[o].status \in {"delivered", "cancelled"} =>
                orders'[o] # NoOrder /\ orders'[o].status = orders[o].status ]_vars

\* C10: every change of an Order's status follows one of the edges
\* pending->confirmed, confirmed->dispatched, dispatched->delivered,
\* pending->cancelled, confirmed->cancelled.
StatusEdges ==
    { <<"pending", "confirmed">>, <<"confirmed", "dispatched">>, <<"dispatched", "delivered">>,
      <<"pending", "cancelled">>, <<"confirmed", "cancelled">> }

C10_StatusEdges ==
    [][ \A o \in OrderIds :
            Exists(o) /\ orders'[o] # NoOrder /\ orders'[o].status # orders[o].status =>
                <<orders[o].status, orders'[o].status>> \in StatusEdges ]_vars

(* ------------------- the claims: the scenarios ----------------------- *)
RaceOrders == {o \in OrderIds : Exists(o)}
RaceDone == \A r \in Racers : req[r].pc = "done"
RaceRefused == {r \in Racers : req[r] = Done("place", "insufficient_stock")}

\* C2: when N requests for q units each race for a material holding S units
\* and nothing else touches it, the orders created never add up to more
\* than S, and once all N have answered exactly min(N, S div q) of them have
\* created an Order and all the others ended with the insufficient-stock
\* outcome.
C2_RaceOutcome ==
    /\ Cardinality(RaceOrders) * scenario.q <= scenario.stock
    /\ material["m1"].stock_level = scenario.stock - Cardinality(RaceOrders) * scenario.q
    /\ RaceDone =>
          /\ Cardinality(RaceOrders) = Min(scenario.n, scenario.stock \div scenario.q)
          /\ Cardinality(RaceRefused) = scenario.n - Cardinality(RaceOrders)
          /\ \A r \in Racers \ RaceRefused : req[r].outcome \in PlaceOk /\ Exists(req[r].oid)

\* all the racers answered, one won and the others were refused
C2_Witness ==
    /\ RaceDone
    /\ scenario.n = NumRace
    /\ Cardinality(RaceOrders) = 1
    /\ Cardinality(RaceRefused) = NumRace - 1
    /\ scenario.q > 1

\* C7: a placement followed by the cancellation of that order by its owner,
\* nothing else touching the material in between, leaves the stock_level
\* where it was before the placement.
C7_RoundTrip ==
    (req[2].pc = "done" /\ req[2].outcome = "ok") =>
        /\ orders[1].status # "pending"
        /\ material["m1"].stock_level = scenario.stock

\* the order was placed for more than one unit and its cancellation went through
C7_Witness ==
    /\ req[2].pc = "done" /\ req[2].outcome = "ok"
    /\ Exists(1) /\ orders[1].quantity = MaxQty /\ orders[1].status = "cancelled"

(* ------------------- the claims: delivery updates -------------------- *)
\* the request of worker r commits a delivery update in this step
Commits(r) == req[r].pc = "advance_tx" /\ req'[r].pc = "done" /\ req'[r].outcome # "error"

\* C11: a dispatch by the assigned agent on a Delivery that is already
\* dispatched, served after the first one has committed, goes through
\* without error and leaves dispatched_at, delivered_at and the Order as the
\* first call left them; without notes the whole Delivery row is unchanged,
\* and no second email goes out.
C11_DispatchIdempotent ==
    [][ \A r \in Slots :
          ( /\ Commits(r)
            /\ req[r].action = "dispatched"
            /\ req[r].delivery = deliveries[req[r].d]
            /\ req[r].actor = deliveries[req[r].d].delivery_agent
            /\ deliveries[req[r].d].dispatched_at # Null ) =>
              /\ req'[r].outcome = "ok"
              /\ deliveries'[req[r].d].dispatched_at = deliveries[req[r].d].dispatched_at
              /\ deliveries'[req[r].d].delivered_at = deliveries[req[r].d].delivered_at
              /\ deliveries'[req[r].d].delivery_agent = deliveries[req[r].d].delivery_agent
              /\ orders' = orders
              /\ sent' = sent
              /\ req[r].notes = "" => deliveries' = deliveries
      ]_vars

\* a later update with a note found the Delivery dispatched and kept the
\* earlier dispatched_at
C11_Witness ==
    /\ \E r \in Slots : req[r] = Done("advance", "ok")
    /\ deliveries[1].dispatched_at = 1
    /\ deliveries[1].delivered_at = Null
    /\ deliveries[1].notes = << <<2, "n">> >>
    /\ <<"dispatched", 1>> \in sent

\* C12: after every committed deliver action the Delivery has both
\* timestamps and dispatched_at <= delivered_at, also when the deliver
\* back-fills dispatched_at and the clock moves between the two reads.
C12_DispatchedNotAfterDelivered ==
    [][ \A r \in Slots :
          Commits(r) /\ req[r].action = "delivered" =>
              /\ deliveries'[req[r].d].delivered_at # Null
              /\ deliveries'[req[r].d].dispatched_at # Null
              /\ deliveries'[req[r].d].dispatched_at <= deliveries'[req[r].d].delivered_at
      ]_vars

\* C13: in every reachable state a Delivery whose delivered_at is set has
\* dispatched_at set as well.
C13_DeliveredImpliesDispatched ==
    \A i \in DOMAIN deliveries :
        deliveries[i].delivered_at # Null => deliveries[i].dispatched_at # Null

\* a Delivery was delivered without ever having been dispatched on its own
C13_Witness ==
    /\ deliveries[1].delivered_at # Null
    /\ deliveries[1].dispatched_at # Null
    /\ <<"delivered", 1>> \in sent
    /\ <<"dispatched", 1>> \notin sent

\* C15: in every reachable state, concurrent dispatch and deliver requests
\* on the same Delivery included, an Order with status delivered has a
\* Delivery whose delivered_at is set.
C15_DeliveredOrderHasDeliveredAt ==
    \A o \in OrderIds :
        Exists(o) /\ orders[o].status = "delivered" =>
            \E i \in DOMAIN deliveries :
                deliveries[i].order = o /\ deliveries[i].delivered_at # Null

\* C16: a delivery update goes past the assigned-agent test only for the
\* agent the Delivery is assigned to, a Delivery without an agent admitting
\* nobody; a request turned away as forbidden changes nothing.
C16_OnlyAssignedAgent ==
    [][ \A r \in Slots :
          /\ req[r].pc = "idle" /\ req'[r].pc = "advance_tx" =>
                 req'[r].actor = deliveries[req'[r].d].delivery_agent
          /\ Finishes(r, "advance") /\ req'[r].outcome = "forbidden" =>
                 UNCHANGED <<material, orders, deliveries, sent>>
      ]_vars

\* C17: Delivery.notes only grows: in every step the notes a Delivery had
\* are a prefix of the notes it has afterwards.
IsPrefix(s, t) == Len(s) <= Len(t) /\ \A k \in 1..Len(s) : s[k] = t[k]

C17_NotesAppendOnly ==
    [][ \A i \in DOMAIN deliveries :
            i \in DOMAIN deliveries' /\ IsPrefix(deliveries[i].notes, deliveries'[i].notes) ]_vars

(* ------------------- the claims: agent assignment -------------------- *)
\* the active load of agent a: Deliveries assigned to a and not yet delivered
Load(a, dels) ==
    Cardinality({i \in DOMAIN dels : dels[i].delivery_agent = a /\ dels[i].delivered_at = Null})

Eligible == {a \in Agents : scenario.profiles[a].role = "delivery" /\ scenario.profiles[a].is_active}

HadDelivery == \E i \in DOMAIN scenario.before : scenario.before[i].order = scenario.oid

\* C14: no two Deliveries belong to the same Order, and assign called for
\* an order that has a Delivery returns that Delivery and leaves the
\* Delivery table as it was.
C14_OneDeliveryPerOrder ==
    /\ \A i, j \in DOMAIN deliveries : deliveries[i].order = deliveries[j].order => i = j
    /\ scenario.called /\ HadDelivery =>
          /\ ~scenario.created
          /\ deliveries = scenario.before
          /\ \E i \in DOMAIN deliveries :
                deliveries[i].order = scenario.oid /\ scenario.returned = deliveries[i]

\* assign was called for an order with a Delivery while agents were available
C14_Witness ==
    /\ scenario.called /\ HadDelivery
    /\ Eligible = Agents
    /\ scenario.returned # NoDelivery
    /\ Len(deliveries) = MaxDeliveries

\* C18: a Delivery created by assign goes to an active Profile with role
\* delivery whose active load is minimal among all active delivery agents;
\* it is created for the order, with no timestamps, exactly when the order
\* has no Delivery and such an agent exists.
C18_LeastLoaded ==
    scenario.called =>
        /\ scenario.created <=> (~HadDelivery /\ Eligible # {})
        /\ scenario.created =>
              /\ scenario.returned.order = scenario.oid
              /\ scenario.returned.dispatched_at = Null
              /\ scenario.returned.delivered_at = Null
              /\ scenario.returned.delivery_agent \in Eligible
              /\ \A a \in Eligible :
                    Load(scenario.returned.delivery_agent, scenario.before)
                        <= Load(a, scenario.before)
              /\ deliveries = Append(scenario.before, scenario.returned)

\* agent a1 carried two open deliveries and a2 one: the new one went to a2
\* although the query returned a1 first
C18_Witness ==
    /\ scenario.called /\ scenario.created
    /\ scenario.agents_qs = <<"a1", "a2">>
    /\ Load("a1", scenario.before) = 2
    /\ Load("a2", scenario.before) = 1
    /\ scenario.returned.delivery_agent = "a2"

\* C19: among the agents tied for the minimum load assign picks the one
\* with the lowest id, whatever order the agent query returns its rows in.
AgentId(a) == IF a = "a1" THEN 1 ELSE 2

C19_LowestIdTieBreak ==
    scenario.called /\ scenario.created =>
        \A a \in Eligible :
            Load(a, scenario.before) = Load(scenario.returned.delivery_agent, scenario.before)
                => AgentId(scenario.returned.delivery_agent) <= AgentId(a)

\* C20: with no active delivery agent a place_order still goes through: the
\* Order is committed and the stock lowered by its quantity, no Delivery row
\* is created, and the response is the informational "no agent available"
\* one, not an error.
C20_NoAgentStillPlaced ==
    [][ \A r \in Slots :
          /\ ( req[r].pc = "place_lock" /\ req'[r].pc # "place_lock"
                /\ agents = {} /\ req[r].quantity <= material[req[r].material].stock_level ) =>
                 /\ req'[r].pc = "place_notify"
                 /\ req'[r].delivery = NoDelivery
          /\ ( req[r].pc = "place_commit" /\ req'[r].pc = "done"
                /\ agents = {} /\ req'[r].outcome # "error" ) =>
                 /\ req'[r].outcome = "ok_no_agent"
                 /\ Created(req[r].oid)
                 /\ orders'[req[r].oid].status = "pending"
                 /\ material'[req[r].material].stock_level
                        = material[req[r].material].stock_level - req[r].quantity
                 /\ deliveries' = deliveries
      ]_vars

\* an order was placed while there was no delivery agent
C20_Witness ==
    /\ agents = {}
    /\ req[1].pc = "done" /\ req[1].kind = "place" /\ req[1].outcome = "ok_no_agent"
    /\ Exists(1) /\ orders[1].quantity = MaxQty
    /\ material["m1"].stock_level = scenario.stock - MaxQty
    /\ deliveries = <<>>

(* ------------------- the claims: deferred assignment ----------------- *)
HasDelivery(o) == \E i \in DOMAIN deliveries : deliveries[i].order = o

\* C21: an Order that has no Delivery gets one, sooner or later, once an
\* active delivery agent exists.
C21_DeferredAssignment ==
    \A o \in OrderIds :
        (Exists(o) /\ ~HasDelivery(o) /\ agents # {}) ~> HasDelivery(o)

(* ------------------- the claims: notifications ----------------------- *)
\* the send of this mail fails in this step and is recorded
FailedNow(mail) == mail \in failed_emails' /\ mail \notin failed_emails

\* C22: a failed send never undoes or fails what it accompanies.  When the
\* order-placed mail fails the placement goes on to its commit with all its
\* writes, and the commit creates the Order, lowers the stock and reports
\* success whether or not the mail went out; when a dispatched or delivered
\* mail fails the Delivery and Order changes are committed and the update
\* reports success.
C22_MailFailureHarmless ==
    [][ /\ \A o \in OrderIds : FailedNow(<<"placed", o>>) =>
               \E r \in Slots : /\ req[r].pc = "place_notify" /\ req[r].oid = o
                                 /\ req' = [req EXCEPT ![r].pc = "place_commit"]
                                 /\ UNCHANGED <<material, orders, deliveries, lock>>
        /\ \A r \in Slots :
               (req[r].pc = "place_commit" /\ req'[r].pc = "done" /\ req'[r].outcome # "error") =>
                   /\ req'[r].outcome \in PlaceOk
                   /\ Created(req[r].oid)
                   /\ material'[req[r].material].stock_level
                          = material[req[r].material].stock_level - req[r].quantity
        /\ \A o \in OrderIds : FailedNow(<<"dispatched", o>>) =>
               \E r \in Slots : /\ Commits(r) /\ req'[r].outcome = "ok"
                                 /\ deliveries[req[r].d].order = o
                                 /\ deliveries'[req[r].d].dispatched_at # Null
        /\ \A o \in OrderIds : FailedNow(<<"delivered", o>>) =>
               \E r \in Slots : /\ Commits(r) /\ req'[r].outcome = "ok"
                                 /\ deliveries[req[r].d].order = o
                                 /\ deliveries'[req[r].d].delivered_at # Null
                                 /\ orders'[o].status = "delivered"
      ]_vars

\* the order was placed and delivered although both mails failed
C22_Witness ==
    /\ Exists(1) /\ orders[1].status = "delivered"
    /\ material["m1"].stock_level = scenario.stock - orders[1].quantity
    /\ {<<"placed", 1>>, <<"delivered", 1>>} \subseteq failed_emails
    /\ sent = {}

\* C26: every send that fails leaves a record in failed_emails.log: after a
\* send each mail is either with the backend or on record.
C26_FailureRecorded ==
    [][ \A r \in Slots :
          /\ (req[r].pc = "place_notify" /\ req'[r].pc = "place_commit") =>
                 <<"placed", req[r].oid>> \in sent' \cup failed_emails'
          /\ (Commits(r) /\ DispatchOrDeliver(req[r].delivery, req[r].action) # "none") =>
                 <<DispatchOrDeliver(req[r].delivery, req[r].action), req[r].delivery.order>>
                     \in sent' \cup failed_emails'
      ]_vars

\* C23: the order-placed mail is handed to the backend, and the Delivery of
\* a new order is chosen, only when the Order is already committed and no
\* Material row lock is held.
C23_NotifyAfterCommit ==
    [][ /\ \A o \in OrderIds :
               (<<"placed", o>> \in sent' /\ <<"placed", o>> \notin sent) =>
                   /\ Exists(o)
                   /\ \A m \in Materials : lock[m] = NoReq
        /\ \A r \in Slots :
               (req[r].pc = "place_lock" /\ req'[r].pc = "place_notify" /\ req'[r].assigned) =>
                   /\ Exists(req'[r].oid)
                   /\ \A m \in Materials : lock'[m] = NoReq
      ]_vars

(* ------------------- the claims: the supplier ------------------------ *)
\* C24: supplier edits that leave the stock_level they read as it is never
\* undo a reservation: the committed stock is the initial stock minus the
\* quantity of the order placed so far.
C24_EditKeepsReservation ==
    material["m1"] # NoMaterial =>
        material["m1"].stock_level
            = scenario.stock - (IF Exists(1) THEN orders[1].quantity ELSE 0)

\* C25: an Order is created only for a Material whose committed row is
\* active when the reservation commits.
C25_NoOrderForInactive ==
    [][ \A o \in OrderIds : Created(o) => material[orders'[o].material].is_active ]_vars

\* C27: no Order and no Delivery ever disappears, whatever the supplier
\* deletes.
C27_OrdersSurviveDelete ==
    [][ /\ \A o \in OrderIds : Exists(o) => orders'[o] # NoOrder
        /\ \A i \in DOMAIN deliveries :
               deliveries[i] # NoDelivery =>
                   i \in DOMAIN deliveries' /\ deliveries'[i] # NoDelivery
      ]_vars

(* ------------------- the claims: the delivery location --------------- *)
\* C28: the delivery_location of a Delivery that assign creates is the
\* order's own location if it has a non-empty one, otherwise the address of
\* the supplier's Profile if that is not blank, otherwise the empty string.
C28_LocationChain ==
    (scenario.called /\ scenario.created) =>
        LET order == OrderAttrs(scenario.address)
            explicit == order.delivery_location
        IN  /\ scenario.returned.delivery_location =
                   IF explicit # NoAttr /\ explicit # "" THEN explicit
                   ELSE IF scenario.address # "" THEN scenario.address
                   ELSE ""
            /\ deliveries[Len(deliveries)].delivery_location
                   = scenario.returned.delivery_location

\* a Delivery was created with the address of the supplier's Profile
C28_Witness ==
    /\ scenario.called /\ scenario.created
    /\ scenario.address = "addr"
    /\ deliveries[Len(deliveries)].delivery_location = "addr"

(* ------------------- the claims: concurrent cancellations ------------ *)
\* C29: whenever a cancellation commits status cancelled, the committed
\* status of the Order just before that commit is pending or confirmed.
C29_CancelSeesCommittedStatus ==
    [][ \A r \in Slots :
          (req[r].pc = "cancel_tx" /\ req'[r].pc = "done" /\ req'[r].outcome = "ok") =>
              orders[req[r].oid].status \in cancellable ]_vars

\* C30: the stock of an Order is released at most once: with the one order
\* of one unit placed, the stock never exceeds what it was before the order.
C30_ReleasedOnce ==
    material["m1"].stock_level <= MaxStock

(* ------------------- the claims: validation and the lock ------------- *)
\* C31: the outcome of a placement is decided by the stock read under the
\* lock on the Material row. A request for at most MaxQty units that arrives
\* while a cancellation of MaxQty units of the material is in flight is
\* refused for lack of stock only by the test on the locked row (which
\* waits for the cancellation), never by an earlier unlocked read.
Restoring(m) ==
    \E r2 \in Slots : /\ req[r2].pc = "cancel_tx"
                      /\ req[r2].order.material = m
                      /\ req[r2].order.quantity = MaxQty
                      /\ orders[req[r2].oid].status \in cancellable

C31_DecidedUnderLock ==
    [][ \A r \in Slots :
          ( /\ Finishes(r, "place")
            /\ req'[r].outcome = "insufficient_stock"
            /\ Restoring(req[r].material) ) =>
              req[r].pc = "place_lock" ]_vars

(* ------------------- the claims: cancellation and the Delivery ------- *)
Dispatched(o) ==
    \E i \in DOMAIN deliveries :
        deliveries[i].order = o /\ deliveries[i].dispatched_at # Null

\* C32: a cancellation is refused whenever the Delivery of the order has
\* dispatched_at set: no cancel_order request that arrives for such an order
\* passes the status test and goes on to release the stock.
C32_NoCancelAfterDispatch ==
    [][ \A r \in Slots :
          (req[r].pc = "idle" /\ req'[r].pc = "cancel_tx") =>
              ~Dispatched(req'[r].oid) ]_vars

(* ------------------- the claims: conservation of stock --------------- *)
RECURSIVE Ordered(_, _)
\* the units of material m held by the Orders 1..n that are not cancelled
Ordered(m, n) ==
    IF n = 0 THEN 0
    ELSE Ordered(m, n - 1) +
         (IF Exists(n) /\ orders[n].material = m /\ orders[n].status # "cancelled"
          THEN orders[n].quantity ELSE 0)

\* C33: with no supplier edit or deletion, the stock of a Material plus the
\* quantities of its Orders that are not cancelled equals the stock the
\* Material started with (MaxStock, before the one order of the scenario).
C33_StockConserved ==
    \A m \in Materials : material[m].stock_level + Ordered(m, MaxId) = MaxStock

(* ------------------- the claims: timestamps and notifications -------- *)
\* C34: once dispatched_at, or delivered_at, of a Delivery is set in the
\* committed state, no step changes its value or unsets it.
C34_TimestampsStable ==
    [][ \A i \in DOMAIN deliveries :
            /\ deliveries[i].dispatched_at # Null =>
                   deliveries'[i].dispatched_at = deliveries[i].dispatched_at
            /\ deliveries[i].delivered_at # Null =>
                   deliveries'[i].delivered_at = deliveries[i].delivered_at ]_vars

\* the notification the request of worker r sends when it commits
Notifies(r) == DispatchOrDeliver(req[r].delivery, req[r].action)

\* C35: the dispatched notification of a Delivery is sent at most once and
\* so is the delivered one: a delivery update that commits sends a
\* notification only if that notification has not been sent for the order.
C35_NotifiedOnce ==
    [][ \A r \in Slots :
          Commits(r) /\ Notifies(r) # "none" =>
              <<Notifies(r), req[r].delivery.order>> \notin sent ]_vars

(* ------------------- the claims: balance of the agents --------------- *)
\* C36: starting with every active agent at load 0, with no deliver action
\* and no change of the agents, the active loads of any two active agents
\* differ by at most 1 after any interleaving of placements.
C36_LoadBalanced ==
    \A a, b \in agents : Load(a, deliveries) <= Load(b, deliveries) + 1

(* ------------------- the claims: what a cancellation leaves alone ---- *)
\* the request of worker r commits a cancellation in this step
Cancels(r) == req[r].pc = "cancel_tx" /\ req'[r].pc = "done" /\ req'[r].outcome = "ok"

\* C37: a cancellation that commits writes the status of its Order and the
\* stock_level of the Material and nothing else: the Delivery table, and so
\* the active load of every agent, is as before. The undelivered Delivery
\* of a cancelled Order counts like any other when the next placement picks
\* its agent, which has the least load over all undelivered Deliveries.
C37_CancelFrame ==
    [][ \A r \in Slots :
          /\ Cancels(r) =>
                 /\ deliveries' = deliveries
                 /\ \A a \in Agents : Load(a, deliveries') = Load(a, deliveries)
                 /\ orders' = [orders EXCEPT ![req[r].oid].status = "cancelled"]
                 /\ material' = [material EXCEPT ![orders[req[r].oid].material].stock_level =
                                     @ + orders[req[r].oid].quantity]
                 /\ UNCHANGED <<nextOrderId, agents, sent, failed_emails>>
          /\ (req[r].pc = "place_lock" /\ req'[r].pc = "place_notify"
                 /\ req'[r].delivery # NoDelivery) =>
                 \A b \in agents :
                     Load(req'[r].delivery.delivery_agent, deliveries) <= Load(b, deliveries)
      ]_vars

\* a cancellation has committed for Order 1, whose Delivery is assigned and
\* not delivered, and the Delivery of Order 2 went to the other agent
C37_Witness ==
    /\ Exists(1) /\ orders[1].status = "cancelled"
    /\ Len(deliveries) = 2
    /\ deliveries[1].order = 1 /\ deliveries[1].delivered_at = Null
    /\ deliveries[2].order = 2
    /\ deliveries[1].delivery_agent \in Agents
    /\ deliveries[2].delivery_agent \in Agents \ {deliveries[1].delivery_agent}
    /\ \E r \in Slots : req[r].pc = "done" /\ req[r].kind = "cancel" /\ req[r].outcome = "ok"

====
